---- MODULE Spec2Model ----
(***************************************************************************)
(* Model of the financial engine of the Danki Financial Feasibility        *)
(* Simulator (src/app.py, perform_calculations).                           *)
(*                                                                         *)
(* The engine computes with Python floats, i.e. IEEE-754 binary64 numbers  *)
(* with round-to-nearest-even.  Several properties of the engine are exact *)
(* equalities between differently associated float expressions, so the     *)
(* arithmetic is modelled bit-exactly: a float is a sign, a 53-bit         *)
(* significand and the exponent of its last bit.  Significands do not fit  *)
(* the integers of the model checker, so they are kept as little-endian    *)
(* sequences of 15-bit limbs.  Infinities, NaN and subnormals are outside  *)
(* the range the bounded inputs can produce and are not modelled.          *)
(***************************************************************************)
EXTENDS Integers, Sequences, FiniteSets, TLC

(***************************************************************************)
(* Natural numbers of arbitrary size: little-endian limbs, no leading zero *)
(* limb, zero is the empty sequence.                                       *)
(***************************************************************************)
LimbBits == 15
Base == 32768

RECURSIVE Pow2(_)
Pow2(n) == IF n = 0 THEN 1 ELSE 2 * Pow2(n - 1)

Limb(a, i) == IF i <= Len(a) THEN a[i] ELSE 0

RECURSIVE Trim(_)
Trim(a) ==
  IF a = <<>> THEN a
  ELSE IF a[Len(a)] = 0 THEN Trim(SubSeq(a, 1, Len(a) - 1)) ELSE a

RECURSIVE BigFromNat(_)
BigFromNat(n) == IF n = 0 THEN <<>> ELSE <<n % Base>> \o BigFromNat(n \div Base)

RECURSIVE AddFrom(_, _, _, _)
AddFrom(a, b, i, c) ==
  IF i > Len(a) /\ i > Len(b) THEN (IF c = 0 THEN <<>> ELSE <<c>>)
  ELSE <<(Limb(a, i) + Limb(b, i) + c) % Base>>
         \o AddFrom(a, b, i + 1, (Limb(a, i) + Limb(b, i) + c) \div Base)

BigAdd(a, b) == AddFrom(a, b, 1, 0)

RECURSIVE SubFrom(_, _, _, _)
SubFrom(a, b, i, c) ==
  IF i > Len(a) THEN <<>>
  ELSE IF a[i] - Limb(b, i) - c < 0
       THEN <<a[i] - Limb(b, i) - c + Base>> \o SubFrom(a, b, i + 1, 1)
       ELSE <<a[i] - Limb(b, i) - c>> \o SubFrom(a, b, i + 1, 0)

\* a - b for a >= b
BigSub(a, b) == Trim(SubFrom(a, b, 1, 0))

RECURSIVE CmpFrom(_, _, _)
CmpFrom(a, b, i) ==
  IF i = 0 THEN 0
  ELSE IF a[i] > b[i] THEN 1
  ELSE IF a[i] < b[i] THEN -1
  ELSE CmpFrom(a, b, i - 1)

\* -1, 0, 1 as a < b, a = b, a > b
BigCmp(a, b) ==
  IF Len(a) > Len(b) THEN 1
  ELSE IF Len(a) < Len(b) THEN -1
  ELSE CmpFrom(a, b, Len(a))

RECURSIVE MulSmallFrom(_, _, _, _)
MulSmallFrom(a, d, i, c) ==
  IF i > Len(a) THEN (IF c = 0 THEN <<>> ELSE <<c>>)
  ELSE <<(a[i] * d + c) % Base>>
         \o MulSmallFrom(a, d, i + 1, (a[i] * d + c) \div Base)

\* a * d for a limb d
MulSmall(a, d) == IF d = 0 THEN <<>> ELSE MulSmallFrom(a, d, 1, 0)

ShiftLimbs(a, q) == IF a = <<>> THEN <<>> ELSE [i \in 1..q |-> 0] \o a

RECURSIVE BigMul(_, _)
BigMul(a, b) ==
  IF b = <<>> \/ a = <<>> THEN <<>>
  ELSE BigAdd(MulSmall(a, b[1]), ShiftLimbs(BigMul(a, Tail(b)), 1))

\* a * 2^n
BigShl(a, n) == ShiftLimbs(MulSmall(a, Pow2(n % LimbBits)), n \div LimbBits)

\* floor(a / (Base^q * 2^r)) for r < LimbBits
ShrLimbs(a, q, r) ==
  IF q >= Len(a) THEN <<>>
  ELSE Trim([i \in 1..(Len(a) - q) |->
               (a[i + q] \div Pow2(r))
                 + (Limb(a, i + q + 1) % Pow2(r)) * Pow2(LimbBits - r)])

\* floor(a / 2^n)
BigShr(a, n) == ShrLimbs(a, n \div LimbBits, n % LimbBits)

RECURSIVE NatBitLen(_)
NatBitLen(n) == IF n = 0 THEN 0 ELSE 1 + NatBitLen(n \div 2)

BigBitLen(a) ==
  IF a = <<>> THEN 0 ELSE LimbBits * (Len(a) - 1) + NatBitLen(a[Len(a)])

BigOdd(a) == a # <<>> /\ a[1] % 2 = 1

\* a * Base + d for a limb d
PushLimb(a, d) == IF a = <<>> /\ d = 0 THEN <<>> ELSE <<d>> \o a

\* the largest limb q with q * b <= r, for r < b * Base, fixed bit by bit
\* from bit k down to bit 0
RECURSIVE DigitFrom(_, _, _, _)
DigitFrom(r, b, q, k) ==
  IF k < 0 THEN q
  ELSE IF BigCmp(MulSmall(b, q + Pow2(k)), r) <= 0
       THEN DigitFrom(r, b, q + Pow2(k), k - 1)
       ELSE DigitFrom(r, b, q, k - 1)

\* one step of the long division: r = the remainder with the next limb of
\* the dividend pushed, d = the next limb of the quotient
DivStep(q, r, b, d) == <<PushLimb(q, d), BigSub(r, MulSmall(b, d))>>

DivLimb(q, r, b) == DivStep(q, r, b, DigitFrom(r, b, 0, LimbBits - 1))

\* long division, one limb of a per step from limb i down to limb 1;
\* qr = <<quotient so far, remainder so far>>
RECURSIVE DivFrom(_, _, _, _)
DivFrom(a, b, i, qr) ==
  IF i = 0 THEN qr
  ELSE DivFrom(a, b, i - 1, DivLimb(qr[1], PushLimb(qr[2], a[i]), b))

\* <<a div b, a mod b>> for b > 0
BigDivMod(a, b) == DivFrom(a, b, Len(a), <<<<>>, <<>>>>)

(***************************************************************************)
(* binary64 values.  Zero is [s |-> 0, m |-> <<>>, e |-> 0]; any other     *)
(* value is s * m * 2^e with s in {1, -1} and 2^52 <= m < 2^53, so equal   *)
(* numbers are equal records (Python's == on floats; -0.0 == 0.0).         *)
(***************************************************************************)
Precision == 53

FZero == [s |-> 0, m |-> <<>>, e |-> 0]

\* s * q * 2^E for a rounded q of 53 or, after a carry, 54 bits
FNormal(s, q, E) ==
  IF BigBitLen(q) > Precision
  THEN [s |-> s, m |-> BigShr(q, 1), e |-> E + 1]
  ELSE [s |-> s, m |-> q, e |-> E]

\* q = the first 53 bits of M, c = the cut-off bits against half a unit
FRoundUp(s, q, E, c) ==
  FNormal(s, IF c > 0 \/ (c = 0 /\ BigOdd(q)) THEN BigAdd(q, <<1>>) ELSE q, E)

\* n = the number of bits to cut off M, q = M without them
FRoundCut(s, M, E, n, q) ==
  FRoundUp(s, q, E + n,
           BigCmp(BigSub(M, BigShl(q, n)), BigShl(<<1>>, n - 1)))

\* L = the number of bits of M
FRoundLen(s, M, E, L) ==
  IF L <= Precision
  THEN [s |-> s, m |-> BigShl(M, Precision - L), e |-> E - (Precision - L)]
  ELSE FRoundCut(s, M, E, L - Precision, BigShr(M, L - Precision))

\* the float nearest to s * M * 2^E (ties to even), M > 0
FRound(s, M, E) == FRoundLen(s, M, E, BigBitLen(M))

\* a Python int used in float arithmetic
FromInt(n) ==
  IF n = 0 THEN FZero
  ELSE IF n > 0 THEN FRound(1, BigFromNat(n), 0)
  ELSE FRound(-1, BigFromNat(-n), 0)

FNeg(a) == [s |-> -a.s, m |-> a.m, e |-> a.e]

\* sa * am * 2^e + sb * bm * 2^e for opposite signs, c = am against bm
FAddOpposite(sa, am, sb, bm, e, c) ==
  IF c = 0 THEN FZero
  ELSE IF c > 0 THEN FRound(sa, BigSub(am, bm), e)
  ELSE FRound(sb, BigSub(bm, am), e)

\* sa * am * 2^e + sb * bm * 2^e
FAddAligned(sa, am, sb, bm, e) ==
  IF sa = sb THEN FRound(sa, BigAdd(am, bm), e)
  ELSE FAddOpposite(sa, am, sb, bm, e, BigCmp(am, bm))

Min(x, y) == IF x < y THEN x ELSE y

FAdd(a, b) ==
  IF a.s = 0 THEN b
  ELSE IF b.s = 0 THEN a
  ELSE FAddAligned(a.s, BigShl(a.m, a.e - Min(a.e, b.e)),
                   b.s, BigShl(b.m, b.e - Min(a.e, b.e)), Min(a.e, b.e))

FSub(a, b) == FAdd(a, FNeg(b))

FMul(a, b) ==
  IF a.s = 0 \/ b.s = 0 THEN FZero
  ELSE FRound(a.s * b.s, BigMul(a.m, b.m), a.e + b.e)

\* qr = <<quotient, remainder>> of the significands' long division; the
\* remainder is kept as a sticky last bit, which is enough to round correctly
FDivRound(s, qr, E) ==
  FRound(s, BigAdd(MulSmall(qr[1], 2), IF qr[2] = <<>> THEN <<>> ELSE <<1>>), E)

\* a / b for b # 0
FDiv(a, b) ==
  IF a.s = 0 THEN FZero
  ELSE FDivRound(a.s * b.s, BigDivMod(BigShl(a.m, Precision + 3), b.m),
                 a.e - b.e - (Precision + 3) - 1)

\* -1, 0, 1 as a < b, a = b, a > b
FCmp(a, b) == FSub(a, b).s

FLess(a, b) == FCmp(a, b) < 0
FLeq(a, b) == FCmp(a, b) <= 0

\* a decimal literal n/d of the source, e.g. 0.40 as Lit(40, 100)
Lit(n, d) == FDiv(FromInt(n), FromInt(d))

(***************************************************************************)
(* The rate tables.                                                        *)
(***************************************************************************)
SECTOR_RATIOS ==
  [ retail   |-> [margin |-> Lit(40, 100), stock_need |-> Lit(15, 100)],
    services |-> [margin |-> Lit(95, 100), stock_need |-> FZero],
    industry |-> [margin |-> Lit(50, 100), stock_need |-> Lit(20, 100)] ]

TAX_ZONES ==
  [ eu    |-> [salary_tax |-> Lit(85, 100), corp_tax |-> Lit(25, 100)],
    us    |-> [salary_tax |-> Lit(25, 100), corp_tax |-> Lit(21, 100)],
    asia  |-> [salary_tax |-> Lit(20, 100), corp_tax |-> Lit(17, 100)],
    latam |-> [salary_tax |-> Lit(60, 100), corp_tax |-> Lit(34, 100)],
    afr   |-> [salary_tax |-> Lit(15, 100), corp_tax |-> Lit(30, 100)] ]

\* scenarios, in the insertion order of the dict
scenarios ==
  << [name |-> "Stagnation",      rate |-> Lit(10, 10)],
     [name |-> "Growth (+5%)",    rate |-> Lit(105, 100)],
     [name |-> "Recession (-5%)", rate |-> Lit(95, 100)] >>

years == <<"Year 1", "Year 2", "Year 3">>

AmortizationYears == 5
MonthsPerYear == 12
RentLoading == Lit(12, 10)

(***************************************************************************)
(* The arguments a call can be made with.  Python's None is the empty      *)
(* tuple and a number n the tuple <<n>>.                                   *)
(***************************************************************************)
None == <<>>

MaxInvestmentSteps == 0
MaxEmployees == 1

InvestmentStep == 1000
SalaryStep == 100
RentStep == 100
DefaultInvestment == 20000
DefaultSalary == 2000
DefaultRent == 3000

Regions == DOMAIN TAX_ZONES \cup {"mars"}
Industries == DOMAIN SECTOR_RATIOS \cup {"farming"}
Investments ==
  {InvestmentStep * k : k \in -1..MaxInvestmentSteps} \cup {DefaultInvestment}
InvestmentArgs == {None} \cup {<<n>> : n \in Investments}
OwnerSalaries == {-SalaryStep, 0, DefaultSalary}
Rents == {0, RentStep, DefaultRent}
EmployeeCounts == -1..MaxEmployees
EmployeeSalaries == {SalaryStep, DefaultSalary}

(***************************************************************************)
(* The formulas of perform_calculations.                                   *)
(***************************************************************************)
AnnualAmortization(inv) == FDiv(FromInt(inv), FromInt(AmortizationYears))

\* the owner's cost with the employees' cost taken off instead of added
TotalSalaryCostMonthlyMinus(owner, nb, emp, mult) ==
  FSub(FMul(FromInt(owner), mult), FMul(FromInt(nb * emp), mult))

TotalSalaryCostMonthly(owner, nb, emp, mult) ==
  FAdd(FMul(FromInt(owner), mult), FMul(FromInt(nb * emp), mult))

\* the rent without the 20% loading
RentMonthlyUnloaded(r) == FromInt(r)

RentMonthly(r) == FMul(FromInt(r), RentLoading)

\* the amortization taken off the fixed costs instead of added
TotalYearlyFixedCostsMinus(salaries, rentm, amort) ==
  FSub(FMul(FAdd(salaries, rentm), FromInt(MonthsPerYear)), amort)

TotalYearlyFixedCosts(salaries, rentm, amort) ==
  FAdd(FMul(FAdd(salaries, rentm), FromInt(MonthsPerYear)), amort)

BreakevenTurnover(fixed, margin) == FDiv(fixed, margin)

\* the tax without its floor: a loss earns a negative tax
TaxNoFloor(ebit, rate) == FMul(ebit, rate)

\* tax = ebit * corp_tax_rate if ebit > 0 else 0
Tax(ebit, rate) == IF ebit.s > 0 THEN FMul(ebit, rate) ELSE FZero

\* the growth applied in year 2 only
GrowTurnoverOnce(curr, i, rate) == IF i = 1 THEN FMul(curr, rate) ELSE curr

\* if i > 0: curr_turnover *= rate
GrowTurnover(curr, i, rate) == IF i > 0 THEN FMul(curr, rate) ELSE curr

\* the cash flow without the amortization added back
CashFlowNoAddBack(net_profit, amort) == net_profit

\* net_profit + annual_amortization
CashFlow(net_profit, amort) == FAdd(net_profit, amort)

\* the book value without its floor
FloorAtZeroMissing(x) == x

\* if net_fixed_assets < 0: net_fixed_assets = 0
FloorAtZero(x) == IF x.s < 0 THEN FZero ELSE x

\* lines 179-180: the year's values appended to the lists (turnovers, ebits
\* and taxes keep the year's locals, which the source does not return)
ScenarioAppend(st, curr_turnover, ebit, tax, net_profit, cumulative_cash) ==
  [ curr_turnover   |-> curr_turnover,
    cumulative_cash |-> cumulative_cash,
    p_list    |-> Append(st.p_list, net_profit),
    cash_list |-> Append(st.cash_list, cumulative_cash),
    turnovers |-> Append(st.turnovers, curr_turnover),
    ebits     |-> Append(st.ebits, ebit),
    taxes     |-> Append(st.taxes, tax) ]

\* lines 176-177
ScenarioCash(st, curr_turnover, ebit, tax, net_profit, amort) ==
  ScenarioAppend(st, curr_turnover, ebit, tax, net_profit,
                 FAdd(st.cumulative_cash, CashFlow(net_profit, amort)))

\* line 174
ScenarioNetProfit(st, curr_turnover, ebit, tax, amort) ==
  ScenarioCash(st, curr_turnover, ebit, tax, FSub(ebit, tax), amort)

\* line 173
ScenarioTax(st, curr_turnover, ebit, corp, amort) ==
  ScenarioNetProfit(st, curr_turnover, ebit, Tax(ebit, corp), amort)

\* lines 171-172
ScenarioEbit(st, curr_turnover, margin, fixed, corp, amort) ==
  ScenarioTax(st, curr_turnover, FSub(FMul(curr_turnover, margin), fixed),
              corp, amort)

\* one year of the scenario loop (lines 168-180); st = the loop's variables
\* after year i-1
ScenarioYear(st, i, rate, margin, fixed, corp, amort) ==
  ScenarioEbit(st, GrowTurnover(st.curr_turnover, i, rate), margin, fixed,
               corp, amort)

RECURSIVE ScenarioLoop(_, _, _, _, _, _, _)
ScenarioLoop(st, i, rate, margin, fixed, corp, amort) ==
  IF i = Len(years) THEN st
  ELSE ScenarioLoop(ScenarioYear(st, i, rate, margin, fixed, corp, amort),
                    i + 1, rate, margin, fixed, corp, amort)

\* line 182
GraphEntry(name, st) ==
  [ name |-> name, profit |-> st.p_list, cash |-> st.cash_list,
    turnovers |-> st.turnovers, ebits |-> st.ebits, taxes |-> st.taxes ]

\* the body of "for name, rate in scenarios.items()"
ProjectScenarioResult(sc, base, margin, fixed, corp, amort, inv) ==
  GraphEntry(sc.name,
    ScenarioLoop([ curr_turnover |-> base, cumulative_cash |-> FromInt(-inv),
                   p_list |-> <<>>, cash_list |-> <<>>,
                   turnovers |-> <<>>, ebits |-> <<>>, taxes |-> <<>> ],
                 0, sc.rate, margin, fixed, corp, amort))

\* lines 205-219
StatementRow(i, curr_turnover, cogs, gross_margin, personnel, ext_charges, ebitda, ebit, tax, net_profit, amort, cumulative_cash, net_fixed_assets) ==
  [ Year |-> years[i + 1],
    Turnover |-> curr_turnover,
    COGS |-> FNeg(cogs),
    GrossMargin |-> gross_margin,
    Personnel |-> FNeg(personnel),
    RentCharges |-> FNeg(ext_charges),
    EBITDA |-> ebitda,
    Amortization |-> FNeg(amort),
    EBIT |-> ebit,
    Tax |-> FNeg(tax),
    NetProfit |-> net_profit,
    CashPosition |-> cumulative_cash,
    NetAssets |-> net_fixed_assets ]

\* lines 201-219
StatementAppend(st, i, curr_turnover, cogs, gross_margin, personnel, ext_charges, ebitda, ebit, tax, net_profit, amort, cumulative_cash, net_fixed_assets) ==
  [ cumulative_cash |-> cumulative_cash,
    net_fixed_assets |-> net_fixed_assets,
    table_rows |-> Append(st.table_rows,
       StatementRow(i, curr_turnover, cogs, gross_margin, personnel,
                    ext_charges, ebitda, ebit, tax, net_profit, amort,
                    cumulative_cash, net_fixed_assets)) ]

\* lines 199-203
StatementNetProfit(st, i, curr_turnover, cogs, gross_margin, personnel, ext_charges, ebitda, ebit, tax, net_profit, amort) ==
  StatementAppend(st, i, curr_turnover, cogs, gross_margin, personnel,
                  ext_charges, ebitda, ebit, tax, net_profit, amort,
                  FAdd(st.cumulative_cash, CashFlow(net_profit, amort)),
                  FloorAtZero(FSub(st.net_fixed_assets, amort)))

\* lines 198-199
StatementTax(st, i, curr_turnover, cogs, gross_margin, personnel, ext_charges, ebitda, ebit, tax, amort) ==
  StatementNetProfit(st, i, curr_turnover, cogs, gross_margin, personnel,
                     ext_charges, ebitda, ebit, tax, FSub(ebit, tax), amort)

\* lines 197-198
StatementEbit(st, i, curr_turnover, cogs, gross_margin, personnel, ext_charges, ebitda, ebit, corp, amort) ==
  StatementTax(st, i, curr_turnover, cogs, gross_margin, personnel,
               ext_charges, ebitda, ebit, Tax(ebit, corp), amort)

\* lines 196-197
StatementEbitda(st, i, curr_turnover, cogs, gross_margin, personnel, ext_charges, ebitda, corp, amort) ==
  StatementEbit(st, i, curr_turnover, cogs, gross_margin, personnel,
                ext_charges, ebitda, FSub(ebitda, amort), corp, amort)

\* line 196
StatementMargins(st, i, curr_turnover, cogs, gross_margin, personnel, ext_charges, corp, amort) ==
  StatementEbitda(st, i, curr_turnover, cogs, gross_margin, personnel,
                  ext_charges,
                  FSub(FSub(gross_margin, personnel), ext_charges),
                  corp, amort)

\* one year of the statement loop (lines 192-219); st = the loop's variables
\* after year i-1
StatementYear(st, i, base, margin, salaries, rentm, corp, amort) ==
  StatementMargins(st, i, base,
                   FMul(base, FSub(FromInt(1), margin)),
                   FMul(base, margin),
                   FMul(salaries, FromInt(MonthsPerYear)),
                   FMul(rentm, FromInt(MonthsPerYear)),
                   corp, amort)

RECURSIVE StatementLoop(_, _, _, _, _, _, _, _)
StatementLoop(st, i, base, margin, salaries, rentm, corp, amort) ==
  IF i = Len(years) THEN st
  ELSE StatementLoop(StatementYear(st, i, base, margin, salaries, rentm, corp, amort),
                     i + 1, base, margin, salaries, rentm, corp, amort)

StatementTable(base, margin, salaries, rentm, corp, amort, inv) ==
  StatementLoop([ cumulative_cash |-> FromInt(-inv),
                  net_fixed_assets |-> FromInt(inv),
                  table_rows |-> <<>> ],
                0, base, margin, salaries, rentm, corp, amort).table_rows

(***************************************************************************)
(* One call of perform_calculations, step by step.                         *)
(***************************************************************************)
VARIABLES
  pc,                  \* where the call is
  region, industry, investment, owner_salary, rent, nb_emp, emp_salary,
  margin_ratio, salary_tax_rate, corp_tax_rate, salary_multiplier,
  annual_amortization, total_salary_cost_monthly, rent_monthly,
  total_yearly_fixed_costs, yearly_breakeven_turnover,
  graph_data,          \* one entry per finished scenario
  table_rows,
  result,              \* what the call returned
  error                \* the exception the call raised

args == <<region, industry, investment, owner_salary, rent, nb_emp, emp_salary>>
ratios == <<margin_ratio, salary_tax_rate, corp_tax_rate, salary_multiplier>>
costs == <<annual_amortization, total_salary_cost_monthly, rent_monthly,
           total_yearly_fixed_costs>>
vars == <<pc, args, ratios, costs, yearly_breakeven_turnover, graph_data,
          table_rows, result, error>>

Init ==
  /\ pc = "start"
  /\ region \in Regions
  /\ industry \in Industries
  /\ investment \in InvestmentArgs
  /\ owner_salary \in OwnerSalaries
  /\ rent \in Rents
  /\ nb_emp \in EmployeeCounts
  /\ emp_salary \in EmployeeSalaries
  /\ margin_ratio = FZero
  /\ salary_tax_rate = FZero
  /\ corp_tax_rate = FZero
  /\ salary_multiplier = FZero
  /\ annual_amortization = FZero
  /\ total_salary_cost_monthly = FZero
  /\ rent_monthly = FZero
  /\ total_yearly_fixed_costs = FZero
  /\ yearly_breakeven_turnover = FZero
  /\ graph_data = <<>>
  /\ table_rows = <<>>
  /\ result = <<>>
  /\ error = ""

\* the lookups placed after the amortization: the call fails late
RaiseKeyErrorLate ==
  /\ pc = "start"
  /\ industry \notin DOMAIN SECTOR_RATIOS \/ region \notin DOMAIN TAX_ZONES
  /\ pc' = "raised"
  /\ error' = "KeyError"
  /\ investment' = IF investment = None THEN <<0>> ELSE investment
  /\ annual_amortization' = AnnualAmortization(investment'[1])
  /\ margin_ratio' = IF industry \in DOMAIN SECTOR_RATIOS
                     THEN SECTOR_RATIOS[industry].margin ELSE margin_ratio
  /\ UNCHANGED <<region, industry, owner_salary, rent, nb_emp, emp_salary,
                 salary_tax_rate, corp_tax_rate, salary_multiplier,
                 total_salary_cost_monthly, rent_monthly,
                 total_yearly_fixed_costs, yearly_breakeven_turnover,
                 graph_data, table_rows, result>>

\* line 141 raises KeyError on an industry that is not in SECTOR_RATIOS and,
\* after it has set margin_ratio, line 142 on a region that is not in
\* TAX_ZONES
RaiseKeyError ==
  /\ pc = "start"
  /\ industry \notin DOMAIN SECTOR_RATIOS \/ region \notin DOMAIN TAX_ZONES
  /\ pc' = "raised"
  /\ error' = "KeyError"
  /\ investment' = IF investment = None THEN <<0>> ELSE investment
  /\ margin_ratio' = IF industry \in DOMAIN SECTOR_RATIOS
                     THEN SECTOR_RATIOS[industry].margin ELSE margin_ratio
  /\ UNCHANGED <<region, industry, owner_salary, rent, nb_emp, emp_salary,
                 salary_tax_rate, corp_tax_rate, salary_multiplier, costs,
                 yearly_breakeven_turnover, graph_data, table_rows, result>>

\* lines 138-144
LookupRatios ==
  /\ pc = "start"
  /\ industry \in DOMAIN SECTOR_RATIOS
  /\ region \in DOMAIN TAX_ZONES
  /\ investment' = IF investment = None THEN <<0>> ELSE investment
  /\ margin_ratio' = SECTOR_RATIOS[industry].margin
  /\ salary_tax_rate' = TAX_ZONES[region].salary_tax
  /\ corp_tax_rate' = TAX_ZONES[region].corp_tax
  /\ salary_multiplier' = FAdd(FromInt(1), TAX_ZONES[region].salary_tax)
  /\ pc' = "costs"
  /\ UNCHANGED <<region, industry, owner_salary, rent, nb_emp, emp_salary,
                 costs, yearly_breakeven_turnover, graph_data, table_rows,
                 result, error>>

\* lines 147-150
ComputeCosts ==
  /\ pc = "costs"
  /\ annual_amortization' = AnnualAmortization(investment[1])
  /\ total_salary_cost_monthly' =
       TotalSalaryCostMonthly(owner_salary, nb_emp, emp_salary, salary_multiplier)
  /\ rent_monthly' = RentMonthly(rent)
  /\ total_yearly_fixed_costs' =
       TotalYearlyFixedCosts(total_salary_cost_monthly', rent_monthly',
                             annual_amortization')
  /\ pc' = "breakeven"
  /\ UNCHANGED <<args, ratios, yearly_breakeven_turnover, graph_data,
                 table_rows, result, error>>

\* line 153
ComputeBreakEven ==
  /\ pc = "breakeven"
  /\ yearly_breakeven_turnover' =
       BreakevenTurnover(total_yearly_fixed_costs, margin_ratio)
  /\ pc' = "scenarios"
  /\ UNCHANGED <<args, ratios, costs, graph_data, table_rows, result, error>>

\* lines 162-182, one scenario per step
ProjectScenario ==
  /\ pc = "scenarios"
  /\ graph_data' = Append(graph_data,
       ProjectScenarioResult(scenarios[Len(graph_data) + 1],
          yearly_breakeven_turnover, margin_ratio, total_yearly_fixed_costs,
          corp_tax_rate, annual_amortization, investment[1]))
  /\ pc' = IF Len(graph_data') = Len(scenarios) THEN "table" ELSE "scenarios"
  /\ UNCHANGED <<args, ratios, costs, yearly_breakeven_turnover, table_rows,
                 result, error>>

\* lines 186-221
BuildStatementTable ==
  /\ pc = "table"
  /\ table_rows' = StatementTable(yearly_breakeven_turnover, margin_ratio,
                     total_salary_cost_monthly, rent_monthly, corp_tax_rate,
                     annual_amortization, investment[1])
  /\ pc' = "return"
  /\ UNCHANGED <<args, ratios, costs, yearly_breakeven_turnover, graph_data,
                 result, error>>

\* line 223
Return ==
  /\ pc = "return"
  /\ result' = <<yearly_breakeven_turnover, corp_tax_rate, graph_data, table_rows>>
  /\ pc' = "returned"
  /\ UNCHANGED <<args, ratios, costs, yearly_breakeven_turnover, graph_data,
                 table_rows, error>>

Next ==
  \/ RaiseKeyError
  \/ LookupRatios
  \/ ComputeCosts
  \/ ComputeBreakEven
  \/ ProjectScenario
  \/ BuildStatementTable
  \/ Return

Spec == Init /\ [][Next]_vars

(***************************************************************************)
(* Properties.                                                             *)
(***************************************************************************)
InvestmentValue == IF investment = None THEN 0 ELSE investment[1]

KnownKeys == industry \in DOMAIN SECTOR_RATIOS /\ region \in DOMAIN TAX_ZONES

\* what section 7 of the specification calls valid
ValidInput == InvestmentValue >= 0 /\ nb_emp >= 0

NonNegativeAmounts == owner_salary >= 0 /\ rent >= 0 /\ emp_salary >= 0

Stagnation == graph_data[1]
Recession == graph_data[3]
YearIndex == 1..Len(years)

\* C1: for region us, industry retail, investment 20000, owner salary 2000,
\* rent 3000, 1 employee at 2000, the call computes amortization 4000,
\* monthly salary cost 5000, monthly rent 3600, yearly fixed costs 107200 and
\* returns break-even turnover 268000 with corporate tax rate 0.21.
C1_Call ==
  /\ region = "us" /\ industry = "retail" /\ investment = <<20000>>
  /\ owner_salary = 2000 /\ rent = 3000 /\ nb_emp = 1 /\ emp_salary = 2000

C1_ConcreteScenario ==
  (pc = "returned" /\ C1_Call) =>
     /\ annual_amortization = FromInt(4000)
     /\ total_salary_cost_monthly = FromInt(5000)
     /\ rent_monthly = FromInt(3600)
     /\ total_yearly_fixed_costs = FromInt(107200)
     /\ result[1] = FromInt(268000)
     /\ result[2] = Lit(21, 100)

C1_Witness == pc = "returned" /\ C1_Call /\ result[1] = FromInt(268000)

\* C2: for every input the Stagnation scenario and the statement table, two
\* independent loops, agree in each of the 3 years on net profit and on
\* cumulative cash.  (The claim adds that the EBIT of year 1 is exactly 0;
\* C2_YearOneEbitZero states that part.)
C2_BreakEvenCoherence ==
  (pc = "returned" /\ ValidInput /\ NonNegativeAmounts) =>
     \A k \in YearIndex :
        /\ Stagnation.profit[k] = table_rows[k].NetProfit
        /\ Stagnation.cash[k] = table_rows[k].CashPosition

C2_YearOneEbitZero ==
  (pc = "returned" /\ ValidInput /\ NonNegativeAmounts) =>
     (table_rows[1].EBIT = FZero /\ Stagnation.ebits[1] = FZero)

\* C3: a call with a negative investment or a negative employee count is
\* rejected: it returns no result.
C3_InvalidInputRejected ==
  ~ValidInput => (pc # "returned" /\ result = <<>>)

\* C4: in every year of every scenario and every row of the table, EBIT <= 0
\* gives a tax of exactly 0 and net profit = EBIT, EBIT > 0 gives tax =
\* EBIT * corporate tax rate, and the table's Tax field is never positive.
C4_TaxFloor ==
  /\ \A j \in 1..Len(graph_data) : \A k \in YearIndex :
       LET d == graph_data[j]
       IN  /\ d.ebits[k].s <= 0 =>
                (d.taxes[k] = FZero /\ d.profit[k] = d.ebits[k])
           /\ d.ebits[k].s > 0 =>
                (d.taxes[k] = FMul(d.ebits[k], corp_tax_rate) /\ d.taxes[k].s > 0)
  /\ \A k \in 1..Len(table_rows) :
       LET r == table_rows[k]
       IN  /\ r.EBIT.s <= 0 => (r.Tax = FZero /\ r.NetProfit = r.EBIT)
           /\ r.EBIT.s > 0 => r.Tax = FNeg(FMul(r.EBIT, corp_tax_rate))
           /\ r.Tax.s <= 0

C4_Witness ==
  /\ pc = "returned"
  /\ Recession.ebits[3].s < 0 /\ Recession.taxes[3] = FZero
  /\ graph_data[2].ebits[3].s > 0 /\ graph_data[2].taxes[3].s > 0
  /\ table_rows[1].EBIT.s < 0 /\ table_rows[1].Tax = FZero

\* C5: for every input, a zero or negative investment included, Net Assets
\* is >= 0 in each of the 3 rows; it starts at the investment, loses the
\* annual amortization each year and is set to 0 when that makes it negative.
C5_NetAssetsBefore(k) ==
  IF k = 1 THEN FromInt(InvestmentValue) ELSE table_rows[k - 1].NetAssets

C5_AssetFloor ==
  \A k \in 1..Len(table_rows) :
    LET x == FSub(C5_NetAssetsBefore(k), annual_amortization)
    IN  /\ table_rows[k].NetAssets.s >= 0
        /\ x.s >= 0 => table_rows[k].NetAssets = x
        /\ x.s < 0 => table_rows[k].NetAssets = FZero

C5_Witness ==
  /\ pc = "returned"
  /\ InvestmentValue < 0
  /\ table_rows[1].NetAssets = FZero
  /\ table_rows[2].NetAssets.s > 0

\* C6: of two calls that differ only in the investment, the one with the
\* larger investment has the larger or equal break-even turnover.
C6_BreakevenFor(inv) ==
  BreakevenTurnover(
     TotalYearlyFixedCosts(total_salary_cost_monthly, rent_monthly,
                           AnnualAmortization(inv)),
     margin_ratio)

C6_Monotonicity ==
  pc = "scenarios" /\ graph_data = <<>> =>
     \A inv \in Investments :
        /\ InvestmentValue <= inv =>
              FLeq(yearly_breakeven_turnover, C6_BreakevenFor(inv))
        /\ inv <= InvestmentValue =>
              FLeq(C6_BreakevenFor(inv), yearly_breakeven_turnover)

C6_Witness ==
  /\ pc = "scenarios" /\ graph_data = <<>>
  /\ InvestmentValue = 0
  /\ FLess(yearly_breakeven_turnover, C6_BreakevenFor(DefaultInvestment))

\* C7 as stated: for all valid inputs the Recession turnover of years 1, 2, 3
\* is strictly decreasing and the net profit of year 3 is lower than that of
\* year 1.
C7_RecessionDeclines ==
  /\ \A k \in 2..Len(years) :
       FLess(Recession.turnovers[k], Recession.turnovers[k - 1])
  /\ Recession.turnovers[1] = yearly_breakeven_turnover
  /\ Recession.turnovers[2] = FMul(Recession.turnovers[1], scenarios[3].rate)
  /\ Recession.turnovers[3] = FMul(Recession.turnovers[2], scenarios[3].rate)
  /\ FLess(Recession.profit[3], Recession.profit[1])

C7_RecessionAllValid ==
  (pc = "returned" /\ ValidInput /\ NonNegativeAmounts) => C7_RecessionDeclines

\* C7 amended: whenever the break-even turnover is positive, the Recession
\* turnover of years 1, 2, 3 is strictly decreasing, each year 0.95 times the
\* year before, and the net profit of year 3 is lower than that of year 1.
C7_RecessionPositiveBreakeven ==
  (pc = "returned" /\ yearly_breakeven_turnover.s > 0) => C7_RecessionDeclines

C7_Witness ==
  /\ pc = "returned" /\ ValidInput /\ NonNegativeAmounts
  /\ yearly_breakeven_turnover.s > 0
  /\ FLess(Recession.turnovers[3], Recession.turnovers[2])
  /\ Recession.profit[3].s < 0

\* C8: with a region or an industry that is not a key of its table the call
\* fails before any cost, break-even or projection value is computed and
\* returns nothing; every key of the two tables is accepted.
C8_InvalidKey ==
  /\ ~KnownKeys =>
       /\ pc \in {"start", "raised"}
       /\ costs = <<FZero, FZero, FZero, FZero>>
       /\ yearly_breakeven_turnover = FZero
       /\ graph_data = <<>> /\ table_rows = <<>> /\ result = <<>>
  /\ KnownKeys => (pc # "raised" /\ error = "")
  /\ pc = "raised" <=> error = "KeyError"

C8_Witness ==
  /\ pc = "raised" /\ error = "KeyError"
  /\ region \in DOMAIN TAX_ZONES /\ industry = "farming"
  /\ InvestmentValue > 0

\* C9 as stated: with investment >= 0 and employee count >= 0 the yearly
\* fixed costs and the break-even turnover are >= 0.
C9_Computed == pc \in {"scenarios", "table", "return", "returned"}

C9_FixedCostsNonNegative ==
  (C9_Computed /\ ValidInput) =>
     (total_yearly_fixed_costs.s >= 0 /\ yearly_breakeven_turnover.s >= 0)

\* C9 amended: with investment >= 0, employee count >= 0 and owner salary,
\* rent and employee salary >= 0, the yearly fixed costs and the break-even
\* turnover are >= 0.
C9_FixedCostsNonNegativeAmounts ==
  (C9_Computed /\ ValidInput /\ NonNegativeAmounts) =>
     (total_yearly_fixed_costs.s >= 0 /\ yearly_breakeven_turnover.s >= 0)

C9_Witness ==
  /\ pc = "returned" /\ ValidInput /\ NonNegativeAmounts
  /\ nb_emp > 0 /\ owner_salary = 0 /\ rent = 0 /\ InvestmentValue = 0
  /\ total_yearly_fixed_costs.s > 0 /\ yearly_breakeven_turnover.s > 0

\* C10 as stated: with investment >= 0, in each row Cash Position is the
\* exact negative of Net Assets and is never positive.
C10_CashMirrorsAssets(k) ==
  /\ FAdd(table_rows[k].CashPosition, table_rows[k].NetAssets) = FZero
  /\ table_rows[k].CashPosition.s <= 0

C10_CashIsMinusAssets ==
  (pc = "returned" /\ ValidInput /\ NonNegativeAmounts) =>
     \A k \in YearIndex : C10_CashMirrorsAssets(k)

\* C10 amended: with investment >= 0, in each row k up to which the Net
\* Profit of every row is exactly 0, Cash Position is the exact negative of
\* Net Assets and is not positive.
C10_CashIsMinusAssetsAtZeroProfit ==
  (pc = "returned" /\ InvestmentValue >= 0) =>
     \A k \in YearIndex :
        (\A j \in 1..k : table_rows[j].NetProfit = FZero) =>
            C10_CashMirrorsAssets(k)

C10_Witness ==
  /\ pc = "returned" /\ C1_Call
  /\ \A j \in YearIndex : table_rows[j].NetProfit = FZero
  /\ table_rows[3].CashPosition = FromInt(-8000)
  /\ table_rows[3].NetAssets = FromInt(8000)

====
